---- MODULE Spec2Model ----
(***************************************************************************)
(* Session lifecycle of spotistats: the AuthProvider of                    *)
(* contexts/AuthContext (bootstrapAuth, handleAuthorize, handleLogout),    *)
(* the same three handlers of pages/Dashboard with its loadDashboard, and  *)
(* the token and resource helpers of lib/spotify.ts.                       *)
(*                                                                         *)
(* The browser state that survives a page load (localStorage, the URL,     *)
(* the clock) is kept apart from the React state of the mounted page,      *)
(* which every page load resets.  Every await of the source is a position  *)
(* of the bootstrap (pc) or a pending authorize (aPending); the response   *)
(* of the identity provider or of the resource API is an action of its     *)
(* own, with every outcome the handler distinguishes.                      *)
(*                                                                         *)
(* Nullable values: 0 is null/undefined for codes, tokens, verifiers and   *)
(* profiles; "" is the null error; NoAuth is the absent StoredAuth.        *)
(***************************************************************************)
EXTENDS Integers, Sequences, FiniteSets, TLC

(* ---------------------------- bounds ----------------------------------- *)

\* authorization codes the identity provider hands out in one behaviour
MaxCodes == 2
\* createVerifier() calls in one behaviour
MaxVerifiers == 2
\* successful token responses in one behaviour
MaxTokens == 2
\* clock ticks in one behaviour
MaxTicks == 1

(* ---------------------------- constants -------------------------------- *)

\* milliseconds one clock tick advances Date.now() (half an hour)
TickMs == 1800000
\* safety margin subtracted from the provider's expiry
SafetyMarginMs == 60000
\* characters of a generated verifier (64 in the source, shortened)
VerifierLen == 3
\* characters of the base64 text of a digest before padding (43 in the source)
DigestLen == 4

\* expires_in values (seconds) a token response may carry
ExpiresInValues == {120, 3600}
\* HTTP statuses of a failed resource request
FailStatuses == {401, 403}
\* error.message of a provider error body; "" when the body has none
BodyMessages == {"", "The access token expired"}
\* profiles the resource API may return for "me"
Users == {1}
\* the components that own a session: contexts/AuthContext and pages/Dashboard
Variants == {"AuthContext", "Dashboard"}
\* the four requests of loadDashboard
Endpoints == {"me", "me/top/tracks", "me/top/artists", "me/player/recently-played"}

ErrNoClientIdBootstrap == "Falta configurar VITE_SPOTIFY_CLIENT_ID."
ErrNoClientIdAuthorize == "Configura VITE_SPOTIFY_CLIENT_ID en tu entorno."
ErrExchange == "No se pudo intercambiar el codigo de autorizacion."
ErrRefresh == "No se pudo refrescar el token de acceso."
ErrForbidden == "Tu cuenta no esta autorizada para esta app (modo desarrollo en Spotify)."

NoAuth == [present |-> FALSE, accessToken |-> 0, refreshToken |-> 0, expiresAt |-> 0]

(* ---------------------------- PKCE ------------------------------------- *)

alphabet ==
  << "a","b","c","d","e","f","g","h","i","j","k","l","m",
     "n","o","p","q","r","s","t","u","v","w","x","y","z",
     "A","B","C","D","E","F","G","H","I","J","K","L","M",
     "N","O","P","Q","R","S","T","U","V","W","X","Y","Z",
     "0","1","2","3","4","5","6","7","8","9" >>

\* the alphabet of btoa: A-Z a-z 0-9 + /
Base64Alphabet ==
  << "A","B","C","D","E","F","G","H","I","J","K","L","M",
     "N","O","P","Q","R","S","T","U","V","W","X","Y","Z",
     "a","b","c","d","e","f","g","h","i","j","k","l","m",
     "n","o","p","q","r","s","t","u","v","w","x","y","z",
     "0","1","2","3","4","5","6","7","8","9","+","/" >>

\* the n-th draw of crypto.getRandomValues: distinct draws differ in their
\* first element modulo the alphabet length, as two 64-character random
\* strings differ
RandomValues(n) == [i \in 1..VerifierLen |-> n + 62 * i + (i - 1) * (n * n + 5)]

createVerifier(n) == [i \in 1..VerifierLen |-> alphabet[(RandomValues(n)[i] % Len(alphabet)) + 1]]

CharCode(c) == CHOOSE i \in 1..Len(alphabet) : alphabet[i] = c

RECURSIVE SumCodes(_)
SumCodes(s) == IF s = <<>> THEN 0 ELSE CharCode(Head(s)) * Len(s) + SumCodes(Tail(s))

\* btoa(String.fromCharCode(...digest)): the base64 text of the SHA-256
\* digest, a deterministic function of the input ending in "=" padding.
\* The digest is a stand-in hash over the 64 base64 characters.
DigestBase64(data) ==
  [i \in 1..(DigestLen + 1) |->
     IF i = DigestLen + 1 THEN "="
     ELSE Base64Alphabet[((SumCodes(data) * (i + 1) + 55 * i * i) % 64) + 1]]

RECURSIVE StripPadding(_)
StripPadding(s) ==
  IF s # <<>> /\ s[Len(s)] = "=" THEN StripPadding(SubSeq(s, 1, Len(s) - 1)) ELSE s

base64Url(b64) ==
  StripPadding([i \in 1..Len(b64) |->
     IF b64[i] = "+" THEN "-" ELSE IF b64[i] = "/" THEN "_" ELSE b64[i]])

createChallenge(verifier) == base64Url(DigestBase64(verifier))

\* mutant: the code_challenge parameter is not set
buildAuthorizeUrlNoChallenge(challenge) ==
  [kind |-> "authorize", grant |-> "code", pkce |-> <<>>,
   method |-> "S256", code |-> 0, token |-> 0, endpoint |-> ""]

buildAuthorizeUrl(challenge) ==
  [kind |-> "authorize", grant |-> "code", pkce |-> challenge,
   method |-> "S256", code |-> 0, token |-> 0, endpoint |-> ""]

\* mutant: the verifier itself is put in the URL
AuthorizeUrlLeak(verifier) == buildAuthorizeUrl(verifier)

\* handleAuthorize: the URL it redirects to for a freshly created verifier
AuthorizeUrlFor(verifier) == buildAuthorizeUrl(createChallenge(verifier))

(* ---------------------------- lib/spotify.ts --------------------------- *)

\* mutant: the safety margin is forgotten
ExpiresAtNoMargin(t, expires_in) == t + expires_in * 1000

ExpiresAt(t, expires_in) == t + expires_in * 1000 - SafetyMarginMs

\* the body of the POST exchangeCodeForToken sends
ExchangeRequest(code, verifier) ==
  [kind |-> "token", grant |-> "authorization_code", pkce |-> verifier,
   method |-> "", code |-> code, token |-> 0, endpoint |-> ""]

\* the body of the POST refreshAccessToken sends
RefreshRequest(tokenToRefresh) ==
  [kind |-> "token", grant |-> "refresh_token", pkce |-> <<>>,
   method |-> "", code |-> 0, token |-> tokenToRefresh, endpoint |-> ""]

\* the GET fetchWithToken sends
ApiRequest(token, endpoint) ==
  [kind |-> "api", grant |-> "", pkce |-> <<>>,
   method |-> "", code |-> 0, token |-> token, endpoint |-> endpoint]

\* the message fetchWithToken throws for a non-2xx response
FetchErrorMessage(httpStatus, bodyMessage) ==
  IF httpStatus = 403 THEN ErrForbidden
  ELSE IF bodyMessage # "" THEN bodyMessage
  ELSE IF httpStatus = 401 THEN "Error HTTP 401" ELSE "Error HTTP"

\* mutant: only the StoredAuth key is removed
clearAuthKeepVerifier(auth, verifier) == <<NoAuth, verifier>>

\* clearAuth removes both keys; the pair is <<StoredAuth, verifier>>
clearAuth(auth, verifier) == <<NoAuth, 0>>

(* ---------------------------- state ------------------------------------ *)

VARIABLES
  variant,         \* which session owner is mounted: AuthContext or Dashboard
  clientId,        \* VITE_SPOTIFY_CLIENT_ID is configured
  now,             \* Date.now()
  location,        \* "away" (app not open), "app", "provider" (redirected)
  urlCode,         \* the code parameter of window.location.search
  storedAuth,      \* localStorage[STORAGE_KEY]
  storedVerifier,  \* localStorage[VERIFIER_KEY]: index of the verifier
  status, error, accessToken, refreshToken, profile,  \* React state
  dashData,        \* React state of Dashboard: topTracks, topArtists, recentPlays
  pc,              \* position of bootstrapAuth
  boot,            \* locals of bootstrapAuth: code, verifier, stored, auth
  aPending,        \* verifiers of handleAuthorize calls awaiting the digest
  loadPending,     \* how many requests of loadDashboard's Promise.all are not yet answered
  loadSettled,     \* the Promise.all of loadDashboard has settled
  nextCode, nextVerifier, nextToken, ticks,  \* supplies of fresh values
  lastSent,        \* the requests and redirects the last step sent
  redirectUrl,     \* the URL of the last window.location.assign
  run,             \* what the current bootstrapAuth run started from and met
  runReqs,         \* grants of the token requests of the current run
  runNet,          \* requests sent since the page was loaded
  exchanges,       \* per verifier: token exchanges sent with it (2 = more than one)
  lastGrant,       \* the token response that produced the StoredAuth last written
  lastOp,          \* the action that produced the current state
  testMode,        \* VITE_AI_TEST_MODE is "1"
  apiKey,          \* VITE_DEEPSEEK_API_KEY is configured
  aiPrompt,        \* React state of the playlist form
  creating, createMsg, createErr, createdPlaylistUrl,  \* React state of the form
  ppc,             \* position of handleGenerateAndSavePlaylist
  plan,            \* the plan generatePlaylistPlan returned
  uris,            \* the uris collected by the search loop
  qpos,            \* index in plan.queries of the search in flight; past the loop,
                   \* how many queries it went through
  misses,          \* searches answered without a track so far
  aiText,          \* content of the generative response last received
  parseOutcome,    \* what parseJsonPlan did with it
  parsedValue,     \* the value it returned
  planVia,         \* how the plan was produced: "canned" or "ai"
  pipeSent,        \* per kind, the requests the current pipeline run has sent
  pipeReq,         \* the request of the pipeline that is in flight
  created,         \* what createPlaylist returned: id and externalUrl
  lastHttp,        \* HTTP status of the failed response the run ended with
  loadRefresh,     \* App: the refreshToken the fetchWithToken of the load closed over
  refreshing,      \* App: refresh requests of 401 answers in flight
  retrying,        \* App: retried requests in flight
  reloads,         \* presses of the reload button so far
  watched          \* App: the course of the request of the load to "me"

browserVars == <<variant, clientId, now, location, urlCode, storedAuth, storedVerifier>>
reactVars == <<status, error, accessToken, refreshToken, profile, dashData>>
flowVars == <<pc, boot, aPending, loadPending, loadSettled>>
supplyVars == <<nextCode, nextVerifier, nextToken, ticks>>
ghostVars == <<redirectUrl, run, runReqs, runNet, exchanges, lastGrant>>
configVars == <<testMode, apiKey>>
formVars == <<aiPrompt, creating, createMsg, createErr, createdPlaylistUrl>>
pipeVars == <<configVars, formVars, ppc, plan, uris, qpos, misses, aiText, parseOutcome,
              parsedValue, planVia, pipeSent, pipeReq, created, lastHttp>>
appVars == <<loadRefresh, refreshing, retrying, reloads>>
sessionVars == <<browserVars, reactVars, flowVars, supplyVars, ghostVars, lastSent>>
vars == <<sessionVars, lastOp, pipeVars, appVars, watched>>

NoBoot == [code |-> 0, verifier |-> 0, stored |-> NoAuth, auth |-> NoAuth]

NoRun == [code |-> 0, verifier |-> 0, stored |-> NoAuth, unexpired |-> FALSE,
          branch |-> "none", afterLogout |-> FALSE,
          tokenOutcome |-> "none", profileOutcome |-> "none", adopted |-> FALSE]

NoGrant == [at |-> 0, expires_in |-> 0, providerExpiry |-> 0]

NoData == [topTracks |-> 0, topArtists |-> 0, recentPlays |-> 0]

\* a count that only distinguishes 0, 1 and "more than one"
Sat2(n) == IF n >= 2 THEN 2 ELSE n + 1

isAuthenticated == accessToken # 0

NoPlan == [name |-> <<>>, description |-> <<>>, queries |-> <<>>]

RequestKinds == {"ai", "search", "create", "add"}

NoSent == [kind \in RequestKinds |-> 0]

NoParsed == [nameKind |-> "absent", name |-> <<>>, descKind |-> "absent",
             description |-> <<>>, queriesIsArray |-> FALSE, queries |-> <<>>]

\* ids of the playlists the resource API may create
PlaylistIds == {1, 2}

NoRequest == [kind |-> "none", query |-> 0, name |-> <<>>, playlist |-> 0, uris |-> <<>>]

NoCreated == [id |-> 0, externalUrl |-> 0]

\* POST chat/completions
AiRequest == [NoRequest EXCEPT !.kind = "ai"]

\* GET search?q=<query>&type=track&limit=1
SearchRequest(query) == [NoRequest EXCEPT !.kind = "search", !.query = query]

\* POST users/<id>/playlists with the name of the plan
CreateRequest(name) == [NoRequest EXCEPT !.kind = "create", !.name = name]

\* mutant: the last uri is left out of the body
AddRequestDropLast(playlistId, us) ==
  [NoRequest EXCEPT !.kind = "add", !.playlist = playlistId,
                    !.uris = SubSeq(us, 1, Len(us) - 1)]

\* POST playlists/<playlistId>/tracks with all the uris in the body
AddRequest(playlistId, us) ==
  [NoRequest EXCEPT !.kind = "add", !.playlist = playlistId, !.uris = us]

\* the playlist form as it is mounted
FormInit ==
  /\ aiPrompt = "" /\ creating = FALSE
  /\ createMsg = "" /\ createErr = "" /\ createdPlaylistUrl = 0
  /\ ppc = "idle" /\ plan = NoPlan /\ uris = <<>> /\ qpos = 0 /\ misses = 0
  /\ aiText = <<>> /\ parseOutcome = "none" /\ parsedValue = NoParsed /\ planVia = "none"
  /\ pipeSent = NoSent /\ lastHttp = 0
  /\ pipeReq = NoRequest /\ created = NoCreated

\* no page of the app has been loaded yet
SessionFresh ==
  /\ variant \in Variants
  /\ clientId \in BOOLEAN
  /\ now = 0
  /\ location = "away"
  /\ urlCode = 0
  /\ storedAuth = NoAuth
  /\ storedVerifier = 0
  /\ status = "idle" /\ error = "" /\ accessToken = 0 /\ refreshToken = 0 /\ profile = 0
  /\ dashData = NoData
  /\ pc = "unloaded" /\ boot = NoBoot /\ aPending = {}
  /\ loadPending = 0 /\ loadSettled = FALSE
  /\ nextCode = 1 /\ nextVerifier = 1 /\ nextToken = 1 /\ ticks = 0
  /\ lastSent = {} /\ redirectUrl = buildAuthorizeUrl(<<>>)
  /\ run = NoRun /\ runReqs = <<>> /\ runNet = 0
  /\ exchanges = [v \in {} |-> 0]
  /\ lastGrant = NoGrant

\* The request of a load to the endpoint "me": where it stands, how many
\* resource and token calls it has made, the bearer tokens of its first and
\* of its second resource call.
NoWatch == [phase |-> "none", resource |-> 0, token |-> 0, bearer |-> 0, retryBearer |-> 0]

\* no load with a refresh token at hand has been started
AppInit ==
  /\ loadRefresh = 0 /\ refreshing = 0 /\ retrying = 0 /\ reloads = 0
  /\ watched = NoWatch

Init ==
  /\ SessionFresh
  /\ testMode = FALSE /\ apiKey = TRUE
  /\ FormInit
  /\ AppInit
  /\ lastOp = "init"

(* ---------------------------- bootstrapAuth ---------------------------- *)

\* the branch bootstrapAuth takes once the client id is known to be set
\* mutant: a stored token is adopted without a look at its expiry
StoredBranchAdoptExpired(stored, t) ==
  IF stored.present THEN "adopt" ELSE "none"

StoredBranch(stored, t) ==
  IF stored.present
  THEN IF stored.expiresAt > t THEN "adopt"
       ELSE IF stored.refreshToken # 0 THEN "refresh" ELSE "none"
  ELSE "none"

\* mutant: storage is looked at before the code
BootstrapBranchStoredFirst(code, verifier, stored, t) ==
  IF StoredBranch(stored, t) # "none" THEN StoredBranch(stored, t)
  ELSE IF code # 0 /\ verifier # 0 THEN "exchange" ELSE "none"

BootstrapBranch(code, verifier, stored, t) ==
  IF code # 0 /\ verifier # 0 THEN "exchange" ELSE StoredBranch(stored, t)

\* mutant: the catch does not return and the handler goes on to storage
AfterExchangeCatchFallthrough(stored, t) == StoredBranch(stored, t)

\* what follows the catch of a rejected exchange: the handler returns
AfterExchangeCatch(stored, t) == "none"

\* What bootstrapAuth does with a token it holds, up to the next await.
\* AuthContext requests the profile and leaves status and error (st, err)
\* alone; Dashboard calls loadDashboard, which sets loading, clears the error
\* and issues the four requests of its Promise.all.
RequestData(token, profilePc, st, err, net) ==
  IF variant = "AuthContext"
  THEN /\ pc' = profilePc
       /\ lastSent' = {ApiRequest(token, "me")}
       /\ runNet' = net + 1
       /\ status' = st /\ error' = err
       /\ loadPending' = 0 /\ loadSettled' = FALSE
  ELSE /\ pc' = "loading"
       /\ lastSent' = {ApiRequest(token, endpoint) : endpoint \in Endpoints}
       /\ runNet' = net + Cardinality(Endpoints)
       /\ status' = "loading" /\ error' = ""
       /\ loadPending' = Cardinality(Endpoints) /\ loadSettled' = FALSE

\* The synchronous part of a branch up to its first await.  at, rt, st and
\* err are the React accessToken, refreshToken, status and error so far, reqs
\* and net the token requests and the requests of the run so far.
EnterBranch(branch, code, verifier, stored, at, rt, st, err, reqs, net) ==
  CASE branch = "exchange" ->
         /\ pc' = "exchange"
         /\ lastSent' = {ExchangeRequest(code, createVerifier(verifier))}
         /\ runReqs' = Append(reqs, "authorization_code")
         /\ runNet' = net + 1
         /\ exchanges' = [v \in DOMAIN exchanges \cup {verifier} |->
                            IF v = verifier
                            THEN Sat2(IF v \in DOMAIN exchanges THEN exchanges[v] ELSE 0)
                            ELSE exchanges[v]]
         /\ accessToken' = at /\ refreshToken' = rt
         /\ status' = st /\ error' = err
         /\ loadPending' = 0 /\ loadSettled' = FALSE
    [] branch = "adopt" ->
         /\ accessToken' = stored.accessToken
         /\ refreshToken' = stored.refreshToken
         /\ RequestData(stored.accessToken, "profile_stored", st, err, net)
         /\ runReqs' = reqs
         /\ UNCHANGED exchanges
    [] branch = "refresh" ->
         /\ pc' = "refresh"
         /\ lastSent' = {RefreshRequest(stored.refreshToken)}
         /\ runReqs' = Append(reqs, "refresh_token")
         /\ runNet' = net + 1
         /\ accessToken' = at /\ refreshToken' = rt
         /\ status' = st /\ error' = err
         /\ loadPending' = 0 /\ loadSettled' = FALSE
         /\ UNCHANGED exchanges
    [] OTHER ->
         /\ pc' = "done"
         /\ accessToken' = at /\ refreshToken' = rt
         /\ status' = st /\ error' = err
         /\ loadPending' = 0 /\ loadSettled' = FALSE
         /\ runReqs' = reqs
         /\ runNet' = net
         /\ lastSent' = {}
         /\ UNCHANGED exchanges

\* A page load: React state starts from its initial values and the mount
\* effect runs bootstrapAuth up to its first await, with the given code in
\* the URL.
Mount(code, op) ==
  /\ location' = "app"
  /\ urlCode' = code
  /\ profile' = 0
  /\ dashData' = NoData
  /\ aPending' = {}
  /\ lastOp' = op
  /\ loadRefresh' = 0 /\ refreshing' = 0 /\ retrying' = 0 /\ watched' = NoWatch
  /\ UNCHANGED <<variant, clientId, now, storedAuth, storedVerifier, redirectUrl, lastGrant,
                 nextVerifier, nextToken, ticks, pipeVars, reloads>>
  /\ IF ~clientId
     THEN /\ error' = ErrNoClientIdBootstrap
          /\ status' = "idle"
          /\ pc' = "done"
          /\ boot' = NoBoot
          /\ run' = [NoRun EXCEPT !.branch = "noclient", !.afterLogout = (lastOp = "logout")]
          /\ accessToken' = 0 /\ refreshToken' = 0
          /\ loadPending' = 0 /\ loadSettled' = FALSE
          /\ runReqs' = <<>> /\ runNet' = 0
          /\ lastSent' = {}
         /\ UNCHANGED exchanges
     ELSE LET branch == BootstrapBranch(code, storedVerifier, storedAuth, now) IN
          /\ boot' = [code |-> code, verifier |-> storedVerifier,
                      stored |-> storedAuth, auth |-> NoAuth]
          /\ run' = [NoRun EXCEPT !.code = code, !.verifier = storedVerifier,
                                  !.stored = storedAuth,
                                  !.unexpired = (storedAuth.present /\ storedAuth.expiresAt > now),
                                  !.branch = branch,
                                  !.afterLogout = (lastOp = "logout"),
                                  !.adopted = (branch = "adopt")]
          /\ EnterBranch(branch, code, storedVerifier, storedAuth, 0, 0, "idle", "", <<>>, 0)

\* the user opens or reloads the app: the URL is what it was
Load ==
  /\ location \in {"away", "app"}
  /\ Mount(urlCode, "load")
  /\ UNCHANGED nextCode

\* the identity provider redirects back, with a fresh code when the user
\* granted access and without one when the user denied it
ProviderReturn ==
  /\ location = "provider"
  /\ \E granted \in BOOLEAN :
       IF granted
       THEN /\ nextCode <= MaxCodes
            /\ Mount(nextCode, "return")
            /\ nextCode' = nextCode + 1
       ELSE /\ Mount(0, "return")
            /\ UNCHANGED nextCode

\* shorthand for the parts of the state a response of the running page
\* leaves alone
ResponseFrame == UNCHANGED <<variant, clientId, now, location, aPending, redirectUrl,
                             nextCode, nextVerifier, ticks, pipeVars, appVars, watched>>

\* the same for an answer to a request of the load
LoadResponseFrame == UNCHANGED <<variant, clientId, now, location, aPending, redirectUrl,
                                 nextCode, nextVerifier, ticks, pipeVars, appVars>>

\* The answered request is one of count alike in the phase: the watched
\* one, which goes on as next, or another one.
WatchStep(phase, count, next) ==
  \/ watched.phase = phase /\ watched' = next
  \/ count > (IF watched.phase = phase THEN 1 ELSE 0) /\ UNCHANGED watched

\* the token endpoint accepts the exchange: exchangeCodeForToken builds and
\* saves the StoredAuth, bootstrapAuth saves it again, adopts it, strips the
\* code from the URL and goes on to the profile or the dashboard
ExchangeOk ==
  /\ location = "app" /\ pc = "exchange"
  /\ nextToken <= MaxTokens
  /\ \E hasRefresh \in BOOLEAN, expires_in \in ExpiresInValues :
       LET auth == [present |-> TRUE,
                    accessToken |-> nextToken,
                    \* json.refresh_token ?? fallbackRefreshToken: the
                    \* fallback is the refreshToken state the mount effect
                    \* closed over, which is null
                    refreshToken |-> IF hasRefresh THEN nextToken ELSE 0,
                    expiresAt |-> ExpiresAt(now, expires_in)] IN
       /\ storedAuth' = auth
       /\ boot' = [boot EXCEPT !.auth = auth]
       /\ accessToken' = auth.accessToken
       /\ refreshToken' = auth.refreshToken
       /\ urlCode' = 0
       /\ lastGrant' = [at |-> now, expires_in |-> expires_in,
                        providerExpiry |-> now + expires_in * 1000]
       /\ RequestData(auth.accessToken, "profile_exchange", status, error, runNet)
  /\ nextToken' = nextToken + 1
  /\ run' = [run EXCEPT !.tokenOutcome = "accepted"]
  /\ lastOp' = "exchangeOk"
  /\ ResponseFrame
  /\ UNCHANGED <<storedVerifier, profile, dashData, runReqs, exchanges>>

\* the token endpoint rejects the exchange: the catch surfaces the error
\* (AuthContext also sets idle) and returns
ExchangeFail ==
  /\ location = "app" /\ pc = "exchange"
  /\ EnterBranch(AfterExchangeCatch(boot.stored, now), boot.code, boot.verifier,
                 boot.stored, accessToken, refreshToken,
                 IF variant = "AuthContext" THEN "idle" ELSE status, ErrExchange,
                 runReqs, runNet)
  /\ run' = [run EXCEPT !.tokenOutcome = "rejected"]
  /\ lastOp' = "exchangeFail"
  /\ ResponseFrame
  /\ UNCHANGED <<urlCode, storedAuth, storedVerifier, profile, dashData, boot,
                 lastGrant, nextToken>>

\* the token endpoint accepts the refresh: refreshAccessToken builds and
\* saves the StoredAuth, bootstrapAuth saves it again, adopts it and goes on
\* to the profile or the dashboard
RefreshOk ==
  /\ location = "app" /\ pc = "refresh"
  /\ nextToken <= MaxTokens
  /\ \E hasRefresh \in BOOLEAN, expires_in \in ExpiresInValues :
       LET auth == [present |-> TRUE,
                    accessToken |-> nextToken,
                    \* json.refresh_token ?? tokenToRefresh
                    refreshToken |-> IF hasRefresh THEN nextToken
                                     ELSE boot.stored.refreshToken,
                    expiresAt |-> ExpiresAt(now, expires_in)] IN
       /\ storedAuth' = auth
       /\ boot' = [boot EXCEPT !.auth = auth]
       /\ accessToken' = auth.accessToken
       /\ refreshToken' = auth.refreshToken
       /\ lastGrant' = [at |-> now, expires_in |-> expires_in,
                        providerExpiry |-> now + expires_in * 1000]
       /\ RequestData(auth.accessToken, "profile_refresh", status, error, runNet)
  /\ nextToken' = nextToken + 1
  /\ run' = [run EXCEPT !.tokenOutcome = "accepted"]
  /\ lastOp' = "refreshOk"
  /\ ResponseFrame
  /\ UNCHANGED <<urlCode, storedVerifier, profile, dashData, runReqs, exchanges>>

\* the token endpoint rejects the refresh: the catch clears both keys and
\* surfaces the error (AuthContext also sets idle)
RefreshFail ==
  /\ location = "app" /\ pc = "refresh"
  /\ storedAuth' = clearAuth(storedAuth, storedVerifier)[1]
  /\ storedVerifier' = clearAuth(storedAuth, storedVerifier)[2]
  /\ error' = ErrRefresh
  /\ status' = IF variant = "AuthContext" THEN "idle" ELSE status
  /\ pc' = "done"
  /\ run' = [run EXCEPT !.tokenOutcome = "rejected"]
  /\ lastOp' = "refreshFail"
  /\ ResponseFrame
  /\ UNCHANGED <<urlCode, accessToken, refreshToken, profile, dashData, boot, nextToken,
                 loadPending, loadSettled, runReqs, runNet, exchanges, lastGrant>>
  /\ lastSent' = {}

\* AuthContext: the resource API answers the profile request with 200
ProfileOk ==
  /\ location = "app" /\ pc \in {"profile_exchange", "profile_stored", "profile_refresh"}
  /\ \E userData \in Users : profile' = userData
  /\ status' = "ready"
  /\ pc' = "done"
  /\ run' = [run EXCEPT !.profileOutcome = "ok"]
  /\ lastOp' = "profileOk"
  /\ ResponseFrame
  /\ UNCHANGED <<urlCode, storedAuth, storedVerifier, error, accessToken, refreshToken,
                 dashData, boot, nextToken, loadPending, loadSettled,
                 runReqs, runNet, exchanges, lastGrant>>
  /\ lastSent' = {}

\* AuthContext: the resource API answers the profile request with a non-2xx
\* status and fetchWithToken throws.  After an exchange the catch surfaces
\* the error and sets idle; after a refresh the catch also clears both keys;
\* after adopting the stored token nothing catches it and bootstrapAuth
\* rejects.
ProfileFail ==
  /\ location = "app" /\ pc \in {"profile_exchange", "profile_stored", "profile_refresh"}
  /\ \E httpStatus \in FailStatuses, bodyMessage \in BodyMessages :
       LET message == FetchErrorMessage(httpStatus, bodyMessage) IN
       CASE pc = "profile_exchange" ->
              /\ error' = message
              /\ status' = "idle"
              /\ pc' = "done"
              /\ UNCHANGED <<storedAuth, storedVerifier>>
         [] pc = "profile_refresh" ->
              /\ storedAuth' = clearAuth(storedAuth, storedVerifier)[1]
              /\ storedVerifier' = clearAuth(storedAuth, storedVerifier)[2]
              /\ error' = message
              /\ status' = "idle"
              /\ pc' = "done"
         [] OTHER ->
              /\ pc' = "rejected"
              /\ UNCHANGED <<storedAuth, storedVerifier, error, status>>
  /\ run' = [run EXCEPT !.profileOutcome = "failed"]
  /\ lastOp' = "profileFail"
  /\ ResponseFrame
  /\ UNCHANGED <<urlCode, accessToken, refreshToken, profile, dashData,
                 boot, nextToken, loadPending, loadSettled,
                 runReqs, runNet, exchanges, lastGrant>>
  /\ lastSent' = {}

(* ---------------------------- loadDashboard ---------------------------- *)

\* mutant: the last answer fulfils the load whatever came before
AllFulfilledLastOnly(settled, pending) == pending = 1

\* mutant: a 401 is refreshed whether or not the request is a retry
ShouldRefreshAlways(httpStatus, rt, retry) == httpStatus = 401 /\ rt # 0

\* App, fetchWithToken: res.status === 401 && refreshToken && retry
ShouldRefresh(httpStatus, rt, retry) == httpStatus = 401 /\ rt # 0 /\ retry

\* Promise.all fulfils with this answer: it is the last one pending and no
\* request has failed before
AllFulfilled(settled, pending) == ~settled /\ pending = 1

\* Dashboard: one of the four requests is answered with 200.  When it is the
\* last one and none has failed, Promise.all fulfils: the four fields are
\* set and status becomes ready.  The handler treats the four alike, so the
\* requests in flight are counted.
FetchOk ==
  /\ location = "app"
  /\ loadPending > 0
  /\ loadPending' = loadPending - 1
  /\ \E userData \in Users :
       /\ IF AllFulfilled(loadSettled, loadPending + refreshing + retrying)
          THEN /\ loadSettled' = TRUE
               /\ profile' = userData
               /\ dashData' = [topTracks |-> 1, topArtists |-> 1, recentPlays |-> 1]
               /\ status' = "ready"
               /\ pc' = "done"
               /\ run' = [run EXCEPT !.profileOutcome = "ok"]
               /\ lastOp' = "fetchOk"
          ELSE /\ lastOp' = IF loadSettled THEN "lateFetch" ELSE "fetchOk"
               /\ UNCHANGED <<loadSettled, profile, dashData, status, pc, run>>
  /\ WatchStep("first", loadPending, [watched EXCEPT !.phase = "ok"])
  /\ LoadResponseFrame
  /\ UNCHANGED <<urlCode, storedAuth, storedVerifier, error, accessToken, refreshToken,
                 boot, nextToken, runReqs, runNet, exchanges, lastGrant>>
  /\ lastSent' = {}

\* Dashboard: one of the four requests is answered with a non-2xx status.
\* The first failure rejects Promise.all: the catch sets ready and the error.
FetchFail ==
  /\ location = "app"
  /\ loadPending > 0
  /\ loadPending' = loadPending - 1
  /\ \E httpStatus \in FailStatuses, bodyMessage \in BodyMessages :
       \* App: a 401 with a refresh token at hand is not a failure yet
       /\ ~ShouldRefresh(httpStatus, loadRefresh, TRUE)
       /\ IF ~loadSettled
          THEN /\ loadSettled' = TRUE
               /\ status' = "ready"
               /\ error' = FetchErrorMessage(httpStatus, bodyMessage)
               /\ pc' = "done"
               /\ run' = [run EXCEPT !.profileOutcome = "failed"]
               /\ lastOp' = "fetchFail"
          ELSE /\ lastOp' = "lateFetch"
               /\ UNCHANGED <<loadSettled, status, error, pc, run>>
  /\ WatchStep("first", loadPending, [watched EXCEPT !.phase = "failed"])
  /\ LoadResponseFrame
  /\ UNCHANGED <<urlCode, storedAuth, storedVerifier, accessToken, refreshToken, profile,
                 dashData, boot, nextToken, runReqs, runNet, exchanges, lastGrant>>
  /\ lastSent' = {}

(* ---------------------------- handleAuthorize -------------------------- *)

\* The button is rendered while the session is not authenticated and is
\* disabled while status is authorizing.  Up to the await of the digest.
AuthorizeStart ==
  /\ location = "app" /\ ~isAuthenticated /\ status # "authorizing"
  /\ IF ~clientId
     THEN /\ error' = ErrNoClientIdAuthorize
          /\ UNCHANGED <<status, aPending, nextVerifier>>
     ELSE /\ nextVerifier <= MaxVerifiers
          /\ status' = "authorizing"
          /\ aPending' = aPending \cup {nextVerifier}
          /\ nextVerifier' = nextVerifier + 1
          /\ UNCHANGED error
  /\ lastOp' = "authorize"
  /\ UNCHANGED <<browserVars, accessToken, refreshToken, profile, dashData, pc, boot,
                 loadPending, loadSettled, nextCode, nextToken, ticks, ghostVars, pipeVars,
                 appVars, watched>>
  /\ lastSent' = {}

\* The digest is ready: the verifier is stored and the page navigates to the
\* identity provider, which ends everything the page had in flight.
AuthorizeRedirect ==
  /\ location = "app"
  /\ \E v \in aPending :
       /\ storedVerifier' = v
       /\ redirectUrl' = AuthorizeUrlFor(createVerifier(v))
       /\ lastSent' = {AuthorizeUrlFor(createVerifier(v))}
  /\ runNet' = runNet + 1
  /\ location' = "provider"
  /\ pc' = "unloaded"
  /\ aPending' = {}
  /\ loadPending' = 0
  /\ lastOp' = "redirect"
  /\ UNCHANGED <<variant, clientId, now, urlCode, storedAuth, reactVars, boot, loadSettled,
                 supplyVars, run, runReqs, exchanges, lastGrant, pipeVars, reloads>>
  /\ loadRefresh' = 0 /\ refreshing' = 0 /\ retrying' = 0 /\ watched' = NoWatch

(* ---------------------------- handleLogout ----------------------------- *)

\* The button is rendered while the session is authenticated.  Dashboard
\* also empties its data fields.
Logout ==
  /\ location = "app" /\ isAuthenticated
  /\ storedAuth' = clearAuth(storedAuth, storedVerifier)[1]
  /\ storedVerifier' = clearAuth(storedAuth, storedVerifier)[2]
  /\ accessToken' = 0
  /\ refreshToken' = 0
  /\ profile' = 0
  /\ dashData' = NoData
  /\ status' = "idle"
  /\ lastOp' = "logout"
  /\ lastSent' = {}
  /\ UNCHANGED <<variant, clientId, now, location, urlCode, error, flowVars, supplyVars,
                 ghostVars, pipeVars, appVars, watched>>

(* ---------------------------- environment ------------------------------ *)

Tick ==
  /\ ticks < MaxTicks
  /\ ticks' = ticks + 1
  /\ now' = now + TickMs
  /\ lastOp' = "tick"
  /\ UNCHANGED <<variant, clientId, location, urlCode, storedAuth, storedVerifier, reactVars,
                 flowVars, nextCode, nextVerifier, nextToken, ghostVars, pipeVars, appVars,
                 watched>>
  /\ lastSent' = {}

Next ==
  \/ Load
  \/ ProviderReturn
  \/ ExchangeOk
  \/ ExchangeFail
  \/ RefreshOk
  \/ RefreshFail
  \/ ProfileOk
  \/ ProfileFail
  \/ FetchOk
  \/ FetchFail
  \/ AuthorizeStart
  \/ AuthorizeRedirect
  \/ Logout
  \/ Tick

Spec == Init /\ [][Next]_vars

TypeOK ==
  /\ variant \in Variants \cup {"App"}
  /\ loadRefresh \in 0..MaxTokens
  /\ refreshing \in 0..Cardinality(Endpoints)
  /\ retrying \in 0..Cardinality(Endpoints)
  /\ loadPending + refreshing + retrying <= Cardinality(Endpoints)
  /\ clientId \in BOOLEAN
  /\ location \in {"away", "app", "provider"}
  /\ status \in {"idle", "authorizing", "loading", "ready"}
  /\ pc \in {"unloaded", "exchange", "refresh", "profile_exchange", "profile_stored",
             "profile_refresh", "loading", "done", "rejected"}
  /\ storedAuth.present \in BOOLEAN
  /\ loadPending \in 0..Cardinality(Endpoints)
  /\ (variant = "AuthContext") => (loadPending = 0 /\ dashData = NoData)

(* ---------------------------- lib/ai.ts -------------------------------- *)

\* longest generative response content, in tokens
MaxTextLen == 5
\* searches of one pipeline run that may be answered without a track
MaxMisses == 1
\* empty strings a parsed queries array may hold
MaxEmpty == 2

\* name.slice(0, 80), description.slice(0, 300), queries.slice(0, 25)
NameMax == 80
DescriptionMax == 300
QueryCap == 25
\* the search loop breaks at 50 uris; fewer than 20 fail the run
UriCap == 50
MinTracks == 20

\* A response content is a sequence of tokens: "p" is prose, "F" a ``` fence
\* (with its optional json tag), "{" and "}" the braces of the JSON object.
Tokens == {"p", "F", "{", "}"}

Texts == UNION {[1..n -> Tokens] : n \in 0..MaxTextLen}

\* JSON.parse accepts the text: it is the object and nothing else
JsonValid(text) == text = <<"{", "}">>

Positions(text, tok) == {i \in 1..Len(text) : text[i] = tok}

Min(S) == CHOOSE x \in S : \A y \in S : x <= y
Max(S) == CHOOSE x \in S : \A y \in S : x >= y

\* text.match(/```(?:json)?\s*([\s\S]*?)```/i): the contents between the
\* first fence and the one that follows it; matched is FALSE without a pair
FencedBlock(text) ==
  LET fences == Positions(text, "F") IN
  IF Cardinality(fences) < 2 THEN [matched |-> FALSE, contents |-> <<>>]
  ELSE LET open == Min(fences)
           close == Min(fences \ {open}) IN
       [matched |-> TRUE, contents |-> SubSeq(text, open + 1, close - 1)]

\* text.slice(text.indexOf("{"), text.lastIndexOf("}") + 1) when both exist
\* and the last "}" follows the first "{"
BraceSlice(text) ==
  LET opens == Positions(text, "{")
      closes == Positions(text, "}") IN
  IF opens # {} /\ closes # {} /\ Max(closes) > Min(opens)
  THEN [found |-> TRUE, slice |-> SubSeq(text, Min(opens), Max(closes))]
  ELSE [found |-> FALSE, slice |-> <<>>]

\* parseJsonPlan: which strategy returned the plan ("direct", "fence",
\* "brace"), or how it threw: "syntaxError" is the SyntaxError of a JSON.parse
\* outside the try, "fatal" the Error of the last line
parseJsonPlan(text) ==
  IF JsonValid(text) THEN "direct"
  ELSE IF FencedBlock(text).matched
       THEN IF JsonValid(FencedBlock(text).contents) THEN "fence" ELSE "syntaxError"
  ELSE IF BraceSlice(text).found
       THEN IF JsonValid(BraceSlice(text).slice) THEN "brace" ELSE "syntaxError"
  ELSE "fatal"

ParseSucceeded(outcome) == outcome \in {"direct", "fence", "brace"}

\* a string of n characters, all different
Str(n) == [i \in 1..n |-> i]

\* s.slice(0, n)
Slice(s, n) == SubSeq(s, 1, IF Len(s) < n THEN Len(s) ELSE n)

\* a queries array of n entries; entry i is the query i, or "" (0) at a hole
QueriesWith(n, holes) == [i \in 1..n |-> IF i \in holes THEN 0 ELSE i]

\* The value JSON.parse returned.  name and description are strings when
\* their kind is "string"; queries is a sequence when queriesIsArray.
Parsed(nameKind, nameLen, descKind, descLen, isArray, n, holes) ==
  [nameKind |-> nameKind, name |-> Str(nameLen),
   descKind |-> descKind, description |-> Str(descLen),
   queriesIsArray |-> isArray, queries |-> QueriesWith(n, holes)]

\* mutant: only the name is looked at
PlanInvalidNameOnly(parsed) == parsed.nameKind # "string" \/ parsed.name = <<>>

\* !parsed?.name || !Array.isArray(parsed?.queries)
PlanInvalid(parsed) ==
  \/ parsed.nameKind # "string" \/ parsed.name = <<>>
  \/ ~parsed.queriesIsArray

NonEmpty(q) == q # 0

\* mutant: the cap is applied before the empty strings are dropped
SanitizeCapFirst(parsed) ==
  [name |-> Slice(parsed.name, NameMax),
   description |-> Slice(IF parsed.descKind = "string" THEN parsed.description ELSE <<>>,
                         DescriptionMax),
   queries |-> SelectSeq(Slice(parsed.queries, QueryCap), NonEmpty)]

\* the plan generatePlaylistPlan returns for a valid parsed value
Sanitize(parsed) ==
  [name |-> Slice(parsed.name, NameMax),
   description |-> Slice(IF parsed.descKind = "string" THEN parsed.description ELSE <<>>,
                         DescriptionMax),
   queries |-> Slice(SelectSeq(parsed.queries, NonEmpty), QueryCap)]

\* mutant: a canned plan that is long enough for the gate of 20
CannedPlanTwenty ==
  [name |-> Str(21), description |-> Str(33), queries |-> QueriesWith(MinTracks, {})]

\* the plan of test mode: five queries
CannedPlan == [name |-> Str(21), description |-> Str(33), queries |-> QueriesWith(5, {})]

ErrNoApiKey == "Configura VITE_DEEPSEEK_API_KEY para usar DeepSeek."
ErrNoContent == "La IA no devolvio contenido."
ErrNoJson == "La IA no devolvio JSON valido."
ErrSyntax == "SyntaxError"
ErrMissingFields == "Respuesta IA invalida: falta name/queries."
ErrNotConnected == "Debes conectar tu cuenta para crear una playlist."
ErrNoPrompt == "Escribe un prompt para la playlist."

(* ---------------------------- playlist pipeline ----------------------- *)

\* what the user may have typed when the button is pressed
Prompts == {"", "  ", "synthwave", "jazz"}

\* aiPrompt.trim()
Trim(prompt) == IF prompt \in {"", "  "} THEN "" ELSE prompt

NameLens == {1, NameMax, NameMax + 1}
DescLens == {0, DescriptionMax, DescriptionMax + 1}
QueryCounts == {0, 3, MinTracks - 1, MinTracks, QueryCap + 1, QueryCap + MaxEmpty + 1}

\* where a queries array of n entries may hold its empty strings
HolesOf(n) ==
  IF n <= QueryCap THEN {{}, {2} \cap 1..n}
  ELSE {h \in SUBSET {1, QueryCap, n} : Cardinality(h) <= MaxEmpty}

\* the values a generative response may parse to, varied one field at a time
ParsedValues ==
  {Parsed("absent", 0, "absent", 0, TRUE, 1, {}),
   Parsed("string", 0, "absent", 0, TRUE, 1, {}),
   Parsed("string", 1, "absent", 0, FALSE, 0, {})}
  \cup {Parsed("string", n, "absent", 0, TRUE, 1, {}) : n \in NameLens}
  \cup {Parsed("string", 1, "string", n, TRUE, 1, {}) : n \in DescLens}
  \cup {Parsed("string", 1, "null", 0, TRUE, 1, {}),
        Parsed("string", NameMax + 1, "string", DescriptionMax + 1, TRUE,
               QueryCap + MaxEmpty + 1, {1, QueryCap})}
  \cup UNION {{Parsed("string", 1, "absent", 0, TRUE, n, h) : h \in HolesOf(n)} :
                n \in QueryCounts}

\* The contents a generative response may carry: the bare object with every
\* parsed value, and every text with an object of one query.
Responses ==
  {[text |-> <<"{", "}">>, value |-> v] : v \in ParsedValues}
  \cup {[text |-> t, value |-> Parsed("string", 1, "absent", 0, TRUE, 1, {})] : t \in Texts}

\* the uri of the first track found for a query
Uri(q) == 1000 + q

\* mutant: the uri is put in front
PushUriFront(us, uri) == <<uri>> \o us

\* uris.push(uri)
PushUri(us, uri) == Append(us, uri)

\* mutant: 19 tracks are enough
EnoughTracksOffByOne(n) == ~(n < MinTracks - 1)

\* the run goes on to createPlaylist: not (uris.length < 20)
EnoughTracks(n) == ~(n < MinTracks)

MinTracksError(n) ==
  "Se necesitan al menos 20 canciones; se encontraron " \o ToString(n) \o "."

\* the message requestWithToken throws for a non-2xx response
RequestErrorMessage(httpStatus, bodyMessage) ==
  IF bodyMessage # "" THEN bodyMessage
  ELSE IF httpStatus = 401 THEN "Error HTTP 401" ELSE "Error HTTP 403"

\* mutant: the key is looked at before the test-mode flag
PlanStartKeyFirst(flag, key) ==
  IF ~key THEN "noKey" ELSE IF flag THEN "canned" ELSE "request"

\* mutant: the request is sent without a key
PlanStartNoKeyCheck(flag, key) == IF flag THEN "canned" ELSE "request"

\* generatePlaylistPlan up to its first await
PlanStart(flag, key) ==
  IF flag THEN "canned" ELSE IF ~key THEN "noKey" ELSE "request"

\* the success message: it names the number of tracks added
CreatedMessage(n) == "Playlist creada (" \o ToString(n) \o " canciones)."

\* one more request of the kind has been sent
Sent(reqs, kind) == [reqs EXCEPT ![kind] = @ + 1]

\* mutant: the handler without its finally
PipeFailNoFinally(message, http, us, reqs) ==
  /\ ppc' = "idle"
  /\ creating' = TRUE
  /\ createErr' = message
  /\ lastHttp' = http
  /\ qpos' = 0
  /\ uris' = us
  /\ pipeSent' = reqs
  /\ pipeReq' = NoRequest /\ created' = NoCreated

\* the catch and the finally of the handler: the error is shown, creating
\* ends.  us is what the loop had collected when the gate of 20 failed, and
\* empty for every other failure.
PipeFail(message, http, us, reqs) ==
  /\ ppc' = "idle"
  /\ creating' = FALSE
  /\ createErr' = message
  /\ lastHttp' = http
  /\ qpos' = 0
  /\ uris' = us
  /\ pipeSent' = reqs
  /\ pipeReq' = NoRequest /\ created' = NoCreated

\* The search loop from the point where i queries have been answered, up to
\* the next await: the next search, or past the loop the gate of 20 and the
\* createPlaylist request.  shown is the createMsg before the gate.
PipeContinue(pl, us, i, shown, reqs) ==
  IF i < Len(pl.queries) /\ Len(us) < UriCap
  THEN /\ ppc' = "searching"
       /\ qpos' = i + 1
       /\ uris' = us
       /\ pipeSent' = Sent(reqs, "search")
       /\ pipeReq' = SearchRequest(pl.queries[i + 1]) /\ created' = NoCreated
       /\ createMsg' = shown
       /\ creating' = TRUE /\ createErr' = "" /\ lastHttp' = 0
  ELSE IF EnoughTracks(Len(us))
  THEN /\ ppc' = "creating"
       /\ qpos' = i
       /\ uris' = us
       /\ pipeSent' = Sent(reqs, "create")
       /\ pipeReq' = CreateRequest(pl.name) /\ created' = NoCreated
       /\ createMsg' = "Creando playlist"
       /\ creating' = TRUE /\ createErr' = "" /\ lastHttp' = 0
  ELSE /\ PipeFail(MinTracksError(Len(us)), 0, us, reqs)
       /\ createMsg' = shown

\* the session stands still while the pipeline runs
PipeFrame == UNCHANGED <<sessionVars, configVars, appVars, watched>>

\* The button is pressed with a prompt typed: the handler up to its first
\* await.  Playlists keeps the button disabled while the prompt is blank.
GenerateStart ==
  /\ location = "app" /\ isAuthenticated
  /\ ppc = "idle" /\ ~creating
  /\ \E prompt \in Prompts :
       /\ variant = "AuthContext" => Trim(prompt) # ""
       /\ aiPrompt' = prompt
       /\ createdPlaylistUrl' = 0
       /\ aiText' = <<>> /\ parseOutcome' = "none" /\ parsedValue' = NoParsed
       /\ misses' = 0
       /\ IF profile = 0
          THEN /\ PipeFail(ErrNotConnected, 0, <<>>, NoSent)
               /\ createMsg' = ""
               /\ plan' = NoPlan /\ planVia' = "none"
          ELSE IF Trim(prompt) = ""
          THEN /\ PipeFail(ErrNoPrompt, 0, <<>>, NoSent)
               /\ createMsg' = ""
               /\ plan' = NoPlan /\ planVia' = "none"
          ELSE CASE PlanStart(testMode, apiKey) = "canned" ->
                      /\ plan' = CannedPlan /\ planVia' = "canned"
                      /\ PipeContinue(CannedPlan, <<>>, 0, "Buscando canciones", NoSent)
                 [] PlanStart(testMode, apiKey) = "noKey" ->
                      /\ PipeFail(ErrNoApiKey, 0, <<>>, NoSent)
                      /\ createMsg' = ""
                      /\ plan' = NoPlan /\ planVia' = "none"
                 [] OTHER ->
                      /\ ppc' = "generating"
                      /\ creating' = TRUE
                      /\ createErr' = "" /\ createMsg' = ""
                      /\ pipeSent' = Sent(NoSent, "ai")
                      /\ pipeReq' = AiRequest /\ created' = NoCreated
                      /\ plan' = NoPlan /\ planVia' = "none"
                      /\ qpos' = 0 /\ uris' = <<>> /\ lastHttp' = 0
  /\ lastOp' = "generate"
  /\ PipeFrame

\* the generative API answers 200: the content is parsed, validated and
\* sanitized, and the search loop starts
AiOk ==
  /\ ppc = "generating"
  /\ \E r \in Responses :
       LET outcome == IF r.text = <<>> THEN "empty" ELSE parseJsonPlan(r.text) IN
       /\ aiText' = r.text
       /\ parseOutcome' = outcome
       /\ IF ParseSucceeded(outcome)
          THEN /\ parsedValue' = r.value
               /\ IF PlanInvalid(r.value)
                  THEN /\ PipeFail(ErrMissingFields, 0, <<>>, pipeSent)
                       /\ UNCHANGED <<plan, planVia, createMsg>>
                  ELSE /\ plan' = Sanitize(r.value) /\ planVia' = "ai"
                       /\ PipeContinue(Sanitize(r.value), <<>>, 0, "Buscando canciones",
                                       pipeSent)
          ELSE /\ PipeFail(CASE outcome = "empty" -> ErrNoContent
                             [] outcome = "syntaxError" -> ErrSyntax
                             [] OTHER -> ErrNoJson, 0, <<>>, pipeSent)
               /\ UNCHANGED <<parsedValue, plan, planVia, createMsg>>
  /\ lastOp' = "aiOk"
  /\ PipeFrame
  /\ UNCHANGED <<aiPrompt, createdPlaylistUrl, misses>>

\* the generative API answers with a non-2xx status
AiFail ==
  /\ ppc = "generating"
  /\ \E httpStatus \in FailStatuses, bodyMessage \in BodyMessages :
       PipeFail(IF bodyMessage # "" THEN bodyMessage ELSE "Fallo IA (HTTP).", httpStatus,
                <<>>, pipeSent)
  /\ lastOp' = "aiFail"
  /\ PipeFrame
  /\ UNCHANGED <<aiPrompt, createdPlaylistUrl, createMsg, misses, aiText, parseOutcome,
                 parsedValue, plan, planVia>>

\* the search of query qpos is answered 200, with a first track or without
SearchOk ==
  /\ ppc = "searching"
  /\ \E found \in BOOLEAN :
       /\ found \/ misses < MaxMisses
       /\ misses' = IF found THEN misses ELSE misses + 1
       /\ PipeContinue(plan,
                       IF found THEN PushUri(uris, Uri(plan.queries[qpos])) ELSE uris,
                       qpos, createMsg, pipeSent)
  /\ lastOp' = "searchOk"
  /\ PipeFrame
  /\ UNCHANGED <<aiPrompt, createdPlaylistUrl, aiText, parseOutcome, parsedValue, plan,
                 planVia>>

\* the search is answered with a non-2xx status: fetchWithToken throws
SearchFail ==
  /\ ppc = "searching"
  /\ \E httpStatus \in FailStatuses, bodyMessage \in BodyMessages :
       PipeFail(FetchErrorMessage(httpStatus, bodyMessage), httpStatus, <<>>, pipeSent)
  /\ lastOp' = "searchFail"
  /\ PipeFrame
  /\ UNCHANGED <<aiPrompt, createdPlaylistUrl, createMsg, misses, aiText, parseOutcome,
                 parsedValue, plan, planVia>>

\* createPlaylist is answered 2xx: addTracksToPlaylist is called with the uris
CreateOk ==
  /\ ppc = "creating"
  /\ ppc' = "adding"
  /\ createMsg' = "Agregando canciones"
  /\ pipeSent' = Sent(pipeSent, "add")
  /\ \E id \in PlaylistIds :
       /\ created' = [id |-> id, externalUrl |-> id]
       /\ pipeReq' = AddRequest(id, uris)
  /\ lastOp' = "createOk"
  /\ PipeFrame
  /\ UNCHANGED <<aiPrompt, creating, createErr, createdPlaylistUrl, plan, uris, qpos, misses,
                 aiText, parseOutcome, parsedValue, planVia, lastHttp>>

\* createPlaylist is answered with a non-2xx status: requestWithToken throws
CreateFail ==
  /\ ppc = "creating"
  /\ \E httpStatus \in FailStatuses, bodyMessage \in BodyMessages :
       PipeFail(RequestErrorMessage(httpStatus, bodyMessage), httpStatus, <<>>, pipeSent)
  /\ lastOp' = "createFail"
  /\ PipeFrame
  /\ UNCHANGED <<aiPrompt, createdPlaylistUrl, createMsg, misses, aiText, parseOutcome,
                 parsedValue, plan, planVia>>

\* addTracksToPlaylist is answered 2xx: the run ends with the playlist link
\* (Playlists also empties the prompt)
AddOk ==
  /\ ppc = "adding"
  /\ ppc' = "idle"
  /\ createdPlaylistUrl' = created.externalUrl
  /\ pipeReq' = NoRequest
  /\ createMsg' = CreatedMessage(Len(uris))
  /\ aiPrompt' = IF variant = "AuthContext" THEN "" ELSE aiPrompt
  /\ creating' = FALSE
  /\ lastOp' = "addOk"
  /\ PipeFrame
  /\ UNCHANGED <<createErr, plan, uris, qpos, misses, aiText, parseOutcome, parsedValue,
                 planVia, pipeSent, created, lastHttp>>

\* addTracksToPlaylist is answered with a non-2xx status
AddFail ==
  /\ ppc = "adding"
  /\ \E httpStatus \in FailStatuses, bodyMessage \in BodyMessages :
       PipeFail(RequestErrorMessage(httpStatus, bodyMessage), httpStatus, <<>>, pipeSent)
  /\ lastOp' = "addFail"
  /\ PipeFrame
  /\ UNCHANGED <<aiPrompt, createdPlaylistUrl, createMsg, misses, aiText, parseOutcome,
                 parsedValue, plan, planVia>>

\* A page with an established session: the token of an accepted exchange is
\* in storage and in memory; the profile is loaded or its request failed.
EstablishedSession ==
  /\ clientId = TRUE
  /\ now = 0 /\ location = "app" /\ urlCode = 0
  /\ storedAuth = [present |-> TRUE, accessToken |-> 1, refreshToken |-> 1,
                   expiresAt |-> ExpiresAt(0, 3600)]
  /\ storedVerifier = 1
  /\ accessToken = 1 /\ refreshToken = 1
  /\ profile \in {0, 1}
  /\ status = (IF variant = "AuthContext" /\ profile = 0 THEN "idle" ELSE "ready")
  /\ error = (IF profile = 0 THEN "Error HTTP 401" ELSE "")
  /\ dashData = (IF variant # "AuthContext" /\ profile # 0
                 THEN [topTracks |-> 1, topArtists |-> 1, recentPlays |-> 1] ELSE NoData)
  /\ pc = "done"
  /\ boot = [code |-> 1, verifier |-> 1, stored |-> NoAuth, auth |-> storedAuth]
  /\ aPending = {} /\ loadPending = 0 /\ loadSettled = (variant # "AuthContext")
  /\ nextCode = 2 /\ nextVerifier = 2 /\ nextToken = 2 /\ ticks = 0
  /\ lastSent = {} /\ redirectUrl = AuthorizeUrlFor(createVerifier(1))
  /\ run = [NoRun EXCEPT !.code = 1, !.verifier = 1, !.branch = "exchange",
                         !.tokenOutcome = "accepted",
                         !.profileOutcome = IF profile = 0 THEN "failed" ELSE "ok"]
  /\ runReqs = <<"authorization_code">>
  /\ runNet = IF variant = "AuthContext" THEN 2 ELSE 1 + Cardinality(Endpoints)
  /\ exchanges = [v \in {1} |-> 1]
  /\ lastGrant = [at |-> 0, expires_in |-> 3600, providerExpiry |-> 3600000]

SessionEstablished == variant \in Variants /\ EstablishedSession

\* the app is configured with a client id and a session is established, or
\* it has no client id and no page has been loaded
PipelineInit ==
  /\ \/ SessionEstablished
     \/ SessionFresh /\ ~clientId
  /\ testMode \in BOOLEAN /\ apiKey \in BOOLEAN
  /\ FormInit
  /\ AppInit
  /\ lastOp = "init"

\* a page load of the app that has no client id
LoadUnconfigured == ~clientId /\ Load

\* the authorize button of the app that has no client id
AuthorizeUnconfigured == ~clientId /\ AuthorizeStart

PipelineNext ==
  \/ LoadUnconfigured
  \/ AuthorizeUnconfigured
  \/ GenerateStart
  \/ AiOk
  \/ AiFail
  \/ SearchOk
  \/ SearchFail
  \/ CreateOk
  \/ CreateFail
  \/ AddOk
  \/ AddFail

PipelineSpec == PipelineInit /\ [][PipelineNext]_vars

\* a request of the pipeline that is in flight is answered
Answer ==
  \/ AiOk
  \/ AiFail
  \/ SearchOk
  \/ SearchFail
  \/ CreateOk
  \/ CreateFail
  \/ AddOk
  \/ AddFail

\* every fetch settles: the promise the handler awaits resolves or rejects
PipelineFairSpec == PipelineSpec /\ WF_vars(Answer)

\* query counts of the plans the search loop is run on by itself
LoopCounts == {3, MinTracks, UriCap, UriCap + 1, UriCap + MaxMisses + 1}

\* The handler at its first search, for a plan that need not come from
\* generatePlaylistPlan: any name, any number of queries.
SearchInit ==
  /\ SessionEstablished /\ profile # 0
  /\ testMode = FALSE /\ apiKey = TRUE
  /\ aiPrompt = "synthwave" /\ creating = TRUE
  /\ createMsg = "Buscando canciones" /\ createErr = "" /\ createdPlaylistUrl = 0
  /\ ppc = "searching"
  /\ \E n \in LoopCounts : plan = [name |-> Str(1), description |-> <<>>,
                                     queries |-> QueriesWith(n, {})]
  /\ uris = <<>> /\ qpos = 1 /\ misses = 0
  /\ aiText = <<>> /\ parseOutcome = "none" /\ parsedValue = NoParsed /\ planVia = "given"
  /\ pipeSent = Sent(NoSent, "search") /\ lastHttp = 0
  /\ pipeReq = SearchRequest(plan.queries[1]) /\ created = NoCreated
  /\ AppInit
  /\ lastOp = "init"

SearchNext ==
  \/ SearchOk
  \/ SearchFail
  \/ CreateOk
  \/ CreateFail
  \/ AddOk
  \/ AddFail

SearchSpec == SearchInit /\ [][SearchNext]_vars

(* ---------------------------- App.tsx ---------------------------------- *)

\* presses of the reload button in one behaviour
MaxReloads == 1

\* what is in flight of the load: first requests, refreshes, retried requests
InFlight == loadPending + refreshing + retrying

\* the parts of the state an answer to the load leaves alone
LoadFrame == UNCHANGED <<variant, clientId, location, urlCode, storedVerifier, boot, aPending,
                         nextCode, nextVerifier, ticks, redirectUrl, runReqs, exchanges,
                         pipeVars, loadRefresh, reloads>>

\* The load rejects: the catch of loadDashboard sets ready and the error,
\* unless Promise.all has settled already.
LoadRejects(message) ==
  IF ~loadSettled
  THEN /\ loadSettled' = TRUE
       /\ status' = "ready"
       /\ error' = message
  ELSE UNCHANGED <<loadSettled, status, error>>

\* The button "Actualizar datos", shown while authenticated: loadDashboard
\* with the token and the refresh token of the current render.  The user
\* presses it when nothing of an earlier load is in flight.
Reload ==
  /\ location = "app" /\ isAuthenticated
  /\ InFlight = 0
  /\ reloads < MaxReloads
  /\ reloads' = reloads + 1
  /\ loadRefresh' = refreshToken
  /\ status' = "loading" /\ error' = ""
  /\ loadPending' = Cardinality(Endpoints) /\ loadSettled' = FALSE
  /\ lastSent' = {ApiRequest(accessToken, endpoint) : endpoint \in Endpoints}
  /\ runNet' = runNet + Cardinality(Endpoints)
  /\ watched' = [phase |-> "first", resource |-> 1, token |-> 0,
                 bearer |-> accessToken, retryBearer |-> 0]
  /\ lastOp' = "reload"
  /\ UNCHANGED <<browserVars, accessToken, refreshToken, profile, dashData, pc, boot,
                 aPending, supplyVars, redirectUrl, run, runReqs, exchanges, lastGrant,
                 pipeVars, refreshing, retrying>>

\* a first request is answered 401 and a refresh token is at hand:
\* fetchWithToken sends a refresh of its own
FetchUnauthorized ==
  /\ location = "app"
  /\ loadPending > 0 /\ ShouldRefresh(401, loadRefresh, TRUE)
  /\ loadPending' = loadPending - 1
  /\ refreshing' = refreshing + 1
  /\ WatchStep("first", loadPending,
               [watched EXCEPT !.phase = "refreshing", !.token = @ + 1])
  /\ lastSent' = {RefreshRequest(loadRefresh)}
  /\ runNet' = runNet + 1
  /\ lastOp' = "fetchUnauthorized"
  /\ LoadFrame
  /\ UNCHANGED <<now, storedAuth, reactVars, pc, loadSettled, nextToken, run, lastGrant,
                 retrying>>

\* the token endpoint accepts such a refresh: the new StoredAuth is saved
\* and adopted and the request is sent again with the new token
RetryRefreshOk ==
  /\ location = "app"
  /\ refreshing > 0
  /\ nextToken <= MaxTokens
  /\ \E hasRefresh \in BOOLEAN, expires_in \in ExpiresInValues, endpoint \in Endpoints :
       LET auth == [present |-> TRUE,
                    accessToken |-> nextToken,
                    refreshToken |-> IF hasRefresh THEN nextToken ELSE loadRefresh,
                    expiresAt |-> ExpiresAt(now, expires_in)] IN
       /\ storedAuth' = auth
       /\ accessToken' = auth.accessToken
       /\ refreshToken' = auth.refreshToken
       /\ lastGrant' = [at |-> now, expires_in |-> expires_in,
                        providerExpiry |-> now + expires_in * 1000]
       /\ lastSent' = {ApiRequest(auth.accessToken, endpoint)}
       /\ IF endpoint = "me"
          THEN /\ watched.phase = "refreshing"
               /\ watched' = [watched EXCEPT !.phase = "retrying", !.resource = @ + 1,
                                             !.retryBearer = auth.accessToken]
          ELSE /\ refreshing > (IF watched.phase = "refreshing" THEN 1 ELSE 0)
               /\ UNCHANGED watched
  /\ nextToken' = nextToken + 1
  /\ refreshing' = refreshing - 1
  /\ retrying' = retrying + 1
  /\ runNet' = runNet + 1
  /\ lastOp' = "retryRefreshOk"
  /\ LoadFrame
  /\ UNCHANGED <<now, status, error, profile, dashData, pc, loadPending, loadSettled, run>>

\* the token endpoint rejects such a refresh: refreshAccessToken throws, the
\* request fails with that error and so does the load
RetryRefreshFail ==
  /\ location = "app"
  /\ refreshing > 0
  /\ refreshing' = refreshing - 1
  /\ LoadRejects(ErrRefresh)
  /\ WatchStep("refreshing", refreshing, [watched EXCEPT !.phase = "failed"])
  /\ lastSent' = {}
  /\ lastOp' = "retryRefreshFail"
  /\ LoadFrame
  /\ UNCHANGED <<now, storedAuth, accessToken, refreshToken, profile, dashData, pc,
                 loadPending, nextToken, run, runNet, lastGrant, retrying>>

\* a retried request is answered 200
RetryOk ==
  /\ location = "app"
  /\ retrying > 0
  /\ retrying' = retrying - 1
  /\ \E userData \in Users :
       IF AllFulfilled(loadSettled, InFlight)
       THEN /\ loadSettled' = TRUE
            /\ profile' = userData
            /\ dashData' = [topTracks |-> 1, topArtists |-> 1, recentPlays |-> 1]
            /\ status' = "ready"
       ELSE UNCHANGED <<loadSettled, profile, dashData, status>>
  /\ WatchStep("retrying", retrying, [watched EXCEPT !.phase = "ok"])
  /\ lastSent' = {}
  /\ lastOp' = "retryOk"
  /\ LoadFrame
  /\ UNCHANGED <<now, storedAuth, error, accessToken, refreshToken, pc, loadPending,
                 nextToken, run, runNet, lastGrant, refreshing>>

\* a retried request is answered with a non-2xx status: fetchWithToken was
\* called with retry false, so there is no second refresh
RetryFail ==
  /\ location = "app"
  /\ retrying > 0
  /\ retrying' = retrying - 1
  /\ \E httpStatus \in FailStatuses, bodyMessage \in BodyMessages :
       IF ShouldRefresh(httpStatus, loadRefresh, FALSE)
       THEN /\ refreshing' = refreshing + 1
            /\ WatchStep("retrying", retrying,
                         [watched EXCEPT !.phase = "refreshing", !.token = @ + 1])
            /\ lastSent' = {RefreshRequest(loadRefresh)}
            /\ runNet' = runNet + 1
            /\ UNCHANGED <<loadSettled, status, error>>
       ELSE /\ LoadRejects(FetchErrorMessage(httpStatus, bodyMessage))
            /\ WatchStep("retrying", retrying, [watched EXCEPT !.phase = "failed"])
            /\ lastSent' = {}
            /\ UNCHANGED <<refreshing, runNet>>
  /\ lastOp' = "retryFail"
  /\ LoadFrame
  /\ UNCHANGED <<now, storedAuth, accessToken, refreshToken, profile, dashData, pc,
                 loadPending, nextToken, run, lastGrant>>

\* The page of App.tsx with an established session and its dashboard loaded.
\* No step of the running page reads an expiry, so the clock stands still.
AppPageInit ==
  /\ variant = "App"
  /\ EstablishedSession /\ profile # 0
  /\ testMode = FALSE /\ apiKey = TRUE
  /\ FormInit
  /\ AppInit
  /\ lastOp = "init"

AppNext ==
  \/ Reload
  \/ FetchOk
  \/ FetchFail
  \/ FetchUnauthorized
  \/ RetryRefreshOk
  \/ RetryRefreshFail
  \/ RetryOk
  \/ RetryFail
  \/ Logout

AppSpec == AppPageInit /\ [][AppNext]_vars

(* ---------------------------- properties ------------------------------- *)

\* the state right after the step in which bootstrapAuth finished
BootEnded ==
  /\ location = "app"
  /\ pc \in {"done", "rejected"}
  /\ lastOp \in {"load", "return", "exchangeFail", "refreshFail", "profileOk", "profileFail",
                "fetchOk", "fetchFail"}

IssuedVerifiers == {createVerifier(v) : v \in 1..(nextVerifier - 1)}

\* C1: a run of bootstrapAuth that starts with a code in the URL, a verifier
\* in storage and an unexpired StoredAuth sends an authorization_code
\* exchange and neither adopts the stored token nor sends a refresh.
C1_CodeTakesPrecedence ==
  (clientId /\ run.code # 0 /\ run.verifier # 0 /\ run.stored.present /\ run.unexpired)
    => /\ run.branch = "exchange"
       /\ ~run.adopted
       /\ runReqs = <<"authorization_code">>
       /\ lastOp \in {"load", "return"}
            => lastSent = {ExchangeRequest(run.code, createVerifier(run.verifier))}
       /\ (pc = "exchange" /\ lastOp \in {"load", "return"}) => accessToken = 0

C1_Witness ==
  /\ clientId /\ run.code # 0 /\ run.verifier # 0 /\ run.stored.present /\ run.unexpired
  /\ pc = "exchange"

\* C2 (as claimed): a run that starts with a code and a verifier ends ready
\* with the new StoredAuth persisted, the code stripped and the profile
\* loaded when the exchange was accepted, and idle with the error set when it
\* was rejected.
C2_ExchangeEndsReadyOrIdle ==
  (BootEnded /\ run.branch = "exchange")
    => \/ /\ run.tokenOutcome = "accepted"
          /\ status = "ready"
          /\ storedAuth = boot.auth
          /\ urlCode = 0
          /\ profile # 0
       \/ /\ run.tokenOutcome = "rejected"
          /\ status = "idle"
          /\ error # ""

\* C3 (as claimed): a run that starts from an expired StoredAuth with a
\* refresh token ends ready holding a new, persisted, unexpired token, or,
\* the refresh rejected, idle with storage and memory cleared.
C3_RefreshEndsReadyOrCleared ==
  (BootEnded /\ run.branch = "refresh")
    => \/ /\ status = "ready"
          /\ boot.auth.present
          /\ accessToken = boot.auth.accessToken
          /\ boot.auth.expiresAt > now
          /\ storedAuth = boot.auth
       \/ /\ run.tokenOutcome = "rejected"
          /\ status = "idle"
          /\ ~storedAuth.present /\ storedVerifier = 0
          /\ accessToken = 0 /\ refreshToken = 0

\* C4 (as claimed): a run that adopts an unexpired stored token sends no
\* token request and ends ready whatever the profile request returns.
C4_AdoptEndsReady ==
  (BootEnded /\ run.branch = "adopt")
    => /\ run.adopted
       /\ runReqs = <<>>
       /\ status = "ready"

\* C5: one run of bootstrapAuth sends at most one request to the token
\* endpoint: never an exchange and a refresh, never a retry.
C5_OneTokenRequestPerRun == Len(runReqs) <= 1

\* a rejected exchange while storage held a refresh token
C5_Witness ==
  /\ run.branch = "exchange" /\ run.tokenOutcome = "rejected"
  /\ run.stored.present /\ run.stored.refreshToken # 0 /\ ~run.unexpired
  /\ pc = "done"

\* C6: in every step, a verifier leaves the browser only as the
\* code_verifier of an authorization_code token request; the authorize URL
\* carries the S256 challenge of an issued verifier and not the verifier.
C6_VerifierOnlyInExchange ==
  \A m \in lastSent :
    /\ m.pkce \in IssuedVerifiers => (m.kind = "token" /\ m.grant = "authorization_code")
    /\ m.kind = "authorize" =>
         /\ m.method = "S256"
         /\ \E v \in IssuedVerifiers : m.pkce = createChallenge(v)
    /\ (m.kind = "api" \/ m.grant = "refresh_token") => m.pkce = <<>>

\* the exchange of a second authorization goes out with the second verifier
C6_Witness ==
  /\ \E m \in lastSent : m.grant = "authorization_code" /\ m.pkce = createVerifier(2)
  /\ redirectUrl.pkce = createChallenge(createVerifier(2))

\* C7 (as claimed): a verifier is sent in at most one token exchange.
C7_VerifierSingleUse == \A v \in DOMAIN exchanges : exchanges[v] <= 1

\* C8: the StoredAuth in storage expires exactly 60000 ms before the expiry
\* the provider reported in the response it was built from.
C8_ExpiresAtMargin ==
  storedAuth.present
    => /\ storedAuth.expiresAt = lastGrant.at + lastGrant.expires_in * 1000 - 60000
       /\ lastGrant.providerExpiry - storedAuth.expiresAt = 60000

C8_Witness ==
  /\ storedAuth.present /\ lastOp = "refreshOk"
  /\ lastGrant.at > 0

\* C9: when handleAuthorize has redirected, and when the browser comes back,
\* the challenge recomputed from the stored verifier is the code_challenge of
\* the redirect URL, base64url-encoded without padding.
C9_ChallengeRoundTrip ==
  lastOp \in {"redirect", "return"}
    => /\ storedVerifier # 0
       /\ redirectUrl.pkce = createChallenge(createVerifier(storedVerifier))
       /\ \A i \in 1..Len(redirectUrl.pkce) : redirectUrl.pkce[i] \notin {"+", "/", "="}
       /\ lastOp = "redirect" => lastSent = {redirectUrl}

\* the browser is back from a second authorize
C9_Witness ==
  /\ lastOp = "return" /\ storedVerifier = 2 /\ urlCode # 0

EndOfRunAfterLogout ==
  /\ run.afterLogout /\ run.code = 0
  /\ BootEnded

\* C10: handleLogout removes both keys, nulls the tokens and the profile,
\* sets idle and sends nothing; the bootstrapAuth of a page load that follows
\* it with no code in the URL ends idle with no profile.
C10_LogoutClears ==
  [][ /\ lastOp' = "logout" =>
           /\ ~storedAuth'.present /\ storedVerifier' = 0
           /\ accessToken' = 0 /\ refreshToken' = 0 /\ profile' = 0
           /\ status' = "idle"
           /\ lastSent' = {} /\ runNet' = runNet
      /\ EndOfRunAfterLogout' =>
           /\ status' = "idle" /\ profile' = 0 /\ accessToken' = 0
           /\ runNet' = 0 ]_vars

C10_Witness ==
  /\ EndOfRunAfterLogout
  /\ lastOp = "load"
  /\ exchanges # <<>>

\* the state right after the step in which the search loop ended
GateReached ==
  /\ planVia # "none"
  /\ lastOp \in {"generate", "aiOk", "searchOk"}
  /\ ppc # "searching"

\* C11: when the search loop ends with fewer than 20 uris the run ends with
\* the error that names the count and neither createPlaylist nor
\* addTracksToPlaylist has been called; with 20 or more the createPlaylist
\* request goes out.
C11_MinimumMatchGate ==
  /\ GateReached =>
       IF Len(uris) < 20
       THEN /\ ppc = "idle" /\ ~creating
            /\ createErr = "Se necesitan al menos 20 canciones; se encontraron "
                             \o ToString(Len(uris)) \o "."
            /\ pipeSent["create"] = 0 /\ pipeSent["add"] = 0
            /\ createdPlaylistUrl = 0
       ELSE /\ ppc = "creating"
            /\ pipeSent["create"] = 1 /\ pipeSent["add"] = 0
            /\ createErr = ""
  /\ ppc \in {"creating", "adding"} => Len(uris) >= 20

\* twenty queries, one of them without a track: 19 uris
C11_Witness ==
  /\ GateReached /\ Len(uris) = 19 /\ misses = 1
  /\ Len(plan.queries) = 20
  /\ ppc = "idle"

\* how many queries of the plan have been answered
Answered == IF ppc = "searching" THEN qpos - 1 ELSE qpos

\* C12: while the loop runs and when it has ended, uris holds one uri for
\* every answered query that had a track, in the order of the queries; it
\* never holds more than 50, and no search is in flight once it holds 50.
C12_ResolvedInQueryOrder ==
  ppc \in {"searching", "creating", "adding"} =>
    /\ Len(uris) = Answered - misses
    /\ \A k \in 1..Len(uris) : \E i \in 1..Answered : uris[k] = Uri(plan.queries[i])
    /\ \A k, l \in 1..Len(uris) : k < l => uris[k] < uris[l]
    /\ Len(uris) <= 50
    /\ ppc = "searching" => Len(uris) < 50
    /\ ppc \in {"creating", "adding"} => (Answered = Len(plan.queries) \/ Len(uris) = 50)

\* the loop broke at 50 uris with queries left, after a query without a track
C12_Witness ==
  /\ ppc = "creating" /\ lastOp = "searchOk"
  /\ Len(uris) = 50 /\ misses = 1
  /\ qpos < Len(plan.queries)

\* the parse result the cascade is claimed to have: the first strategy that
\* succeeds, and the fatal error when none does
ClaimedCascade(text) ==
  IF JsonValid(text) THEN "direct"
  ELSE IF FencedBlock(text).matched /\ JsonValid(FencedBlock(text).contents) THEN "fence"
  ELSE IF BraceSlice(text).found /\ JsonValid(BraceSlice(text).slice) THEN "brace"
  ELSE "fatal"

\* C13 (as claimed): a content is parsed by the first strategy that succeeds
\* among direct parse, fenced block and brace scan, a fenced block that does
\* not parse included; the fatal error is raised only when all three fail.
C13_ParseCascade ==
  (aiText # <<>> /\ parseOutcome # "none") =>
    /\ ParseSucceeded(ClaimedCascade(aiText)) => parseOutcome = ClaimedCascade(aiText)
    /\ parseOutcome = "fatal" => ClaimedCascade(aiText) = "fatal"

RECURSIVE DropEmpty(_)
DropEmpty(qs) ==
  IF qs = <<>> THEN <<>>
  ELSE IF Head(qs) = 0 THEN DropEmpty(Tail(qs)) ELSE <<Head(qs)>> \o DropEmpty(Tail(qs))

\* C14: the plan returned for a validated parsed value has the first
\* min(80, length) characters of the parsed name, a description of at most
\* 300 characters, and the non-empty parsed queries in their order, the
\* first 25 of them.
C14_PlanSanitized ==
  planVia = "ai" =>
    /\ Len(plan.name) = (IF Len(parsedValue.name) < 80 THEN Len(parsedValue.name) ELSE 80)
    /\ \A i \in 1..Len(plan.name) : plan.name[i] = parsedValue.name[i]
    /\ Len(plan.description) <= 300
    /\ Len(plan.queries) =
         (IF Len(DropEmpty(parsedValue.queries)) < 25
          THEN Len(DropEmpty(parsedValue.queries)) ELSE 25)
    /\ \A i \in 1..Len(plan.queries) : plan.queries[i] = DropEmpty(parsedValue.queries)[i]

\* a name of 81 characters, a description of 301, more than 25 queries with
\* empty strings among the first 25
C14_Witness ==
  /\ planVia = "ai" /\ lastOp = "aiOk"
  /\ Len(parsedValue.name) = 81 /\ Len(parsedValue.description) = 301
  /\ Len(parsedValue.queries) > 25 /\ parsedValue.queries[1] = 0
  /\ Len(plan.queries) = 25

\* C15: a content that parses to a value without a non-empty name, or whose
\* queries is not an array, ends the run with the missing-name/queries error:
\* no plan, no search, create or add request.
C15_InvalidPlanRejected ==
  (ParseSucceeded(parseOutcome)
     /\ (parsedValue.nameKind # "string" \/ parsedValue.name = <<>>
           \/ ~parsedValue.queriesIsArray))
    => /\ createErr = "Respuesta IA invalida: falta name/queries."
       /\ ppc = "idle" /\ ~creating
       /\ plan = NoPlan /\ planVia = "none"
       /\ pipeSent["search"] = 0 /\ pipeSent["create"] = 0 /\ pipeSent["add"] = 0

\* a name is there but queries is not an array
C15_Witness ==
  /\ ParseSucceeded(parseOutcome) /\ lastOp = "aiOk"
  /\ parsedValue.nameKind = "string" /\ parsedValue.name # <<>>
  /\ ~parsedValue.queriesIsArray

\* the handler got past its own checks and called generatePlaylistPlan
PlanRequested ==
  /\ lastOp = "generate"
  /\ profile # 0 /\ Trim(aiPrompt) # ""

\* C16: without a client id, a page load and the authorize button report the
\* error and nothing else happens: no token request, no redirect, no
\* verifier stored.  Without an API key and with test mode off,
\* generatePlaylistPlan fails at once and no request is sent.
C16_ConfigurationErrorsBlock ==
  /\ ~clientId =>
       /\ storedVerifier = 0 /\ aPending = {}
       /\ location # "provider"
       /\ lastSent = {} /\ runReqs = <<>> /\ runNet = 0
       /\ ~isAuthenticated /\ status = "idle"
       /\ lastOp = "load" => error = "Falta configurar VITE_SPOTIFY_CLIENT_ID."
       /\ lastOp = "authorize" => error = "Configura VITE_SPOTIFY_CLIENT_ID en tu entorno."
  /\ (~testMode /\ ~apiKey) =>
       /\ pipeSent = NoSent /\ ppc = "idle" /\ ~creating
       /\ planVia = "none"
       /\ PlanRequested => createErr = "Configura VITE_DEEPSEEK_API_KEY para usar DeepSeek."

\* the authorize button was pressed in the app without a client id
C16_Witness ==
  /\ ~clientId /\ lastOp = "authorize"
  /\ error = ErrNoClientIdAuthorize

\* C17: with test mode on every call of generatePlaylistPlan returns the
\* canned plan and no request goes to the generative API, with or without an
\* API key; with test mode off no plan comes from the canned return.
C17_TestModeCannedPlan ==
  /\ testMode =>
       /\ pipeSent["ai"] = 0
       /\ planVia \in {"none", "canned"}
       /\ PlanRequested => (planVia = "canned" /\ plan = CannedPlan /\ ppc = "searching")
       /\ planVia = "canned" => plan = CannedPlan
  /\ ~testMode => planVia # "canned"

\* test mode without an API key
C17_Witness ==
  /\ testMode /\ ~apiKey
  /\ PlanRequested /\ aiPrompt = "jazz"
  /\ plan = CannedPlan

\* C19 (as claimed): a resource-API request of the pipeline that is answered
\* 403 fails with the fixed guidance message, through fetchWithToken and
\* through requestWithToken alike.
C19_ForbiddenMessage ==
  (lastOp \in {"searchFail", "createFail", "addFail"} /\ lastHttp = 403)
    => createErr = ErrForbidden

\* C18: a failed request of the four-way load fails the load: the message of
\* that response is shown, status is ready and no data field changes; the
\* data fields are filled only by the step in which the last of the four is
\* answered 200 and none has failed.
C18_FanOutFailsAsAWhole ==
  [][ /\ lastOp' = "fetchFail" =>
           /\ error' \in {FetchErrorMessage(h, b) : h \in FailStatuses, b \in BodyMessages}
           /\ status' = "ready"
           /\ profile' = profile /\ dashData' = dashData
      /\ (dashData' # dashData /\ dashData' # NoData) =>
           /\ lastOp' = "fetchOk"
           /\ ~loadSettled /\ loadPending = 1 /\ loadPending' = 0
           /\ profile' # 0 /\ error' = "" ]_vars

\* one of the four has failed while the others are in flight
C18_Witness ==
  /\ variant = "Dashboard" /\ lastOp = "fetchFail"
  /\ loadPending > 0 /\ loadSettled
  /\ dashData = NoData /\ profile = 0 /\ error # ""

\* C20 (as claimed): after the identity provider has rejected a refresh,
\* sent by bootstrapAuth or by a request that was answered 401, both storage
\* keys are gone, no access token is in memory, status is idle and the error
\* is shown.
C20_RefreshFailureLogsOut ==
  lastOp \in {"refreshFail", "retryRefreshFail"} =>
    /\ ~storedAuth.present /\ storedVerifier = 0
    /\ accessToken = 0
    /\ status = "idle"
    /\ error = ErrRefresh

\* a run of the handler has ended and nothing has happened since
RunEnded ==
  /\ ppc = "idle"
  /\ lastOp \in {"generate", "aiOk", "aiFail", "searchOk", "searchFail", "createFail",
                 "addOk", "addFail"}

\* the outcome of a run: none while it runs, then the link with the count
\* of tracks after addTracksToPlaylist succeeded, or an error without a link
RunOutcome ==
  /\ ppc # "idle" => creating /\ createdPlaylistUrl = 0 /\ createErr = ""
  /\ createdPlaylistUrl # 0 => lastOp = "addOk" /\ pipeSent["add"] = 1
  /\ RunEnded =>
       /\ ~creating
       /\ \/ /\ lastOp = "addOk"
             /\ createdPlaylistUrl # 0 /\ createErr = ""
             /\ createMsg = "Playlist creada (" \o ToString(Len(uris)) \o " canciones)."
          \/ /\ lastOp # "addOk"
             /\ createdPlaylistUrl = 0 /\ createErr # ""

\* C21: every run of the handler that starts ends, with exactly one outcome:
\* the playlist link and the track count, set only after addTracksToPlaylist
\* succeeded, or an error with no link; creating is false afterwards.
C21_OneTerminalOutcome ==
  /\ []RunOutcome
  /\ (ppc # "idle") ~> (ppc = "idle")

\* a run of twenty tracks has ended with the link
C21_Witness ==
  /\ RunEnded /\ lastOp = "addOk" /\ createdPlaylistUrl # 0 /\ Len(uris) = MinTracks
  /\ ~creating

\* C22: the requests of one run are strictly ordered.  The plan request is
\* alone; the search in flight is the one of query qpos and every search
\* sent before it has been answered; the single createPlaylist goes out when
\* no search is in flight and the loop is over; the single
\* addTracksToPlaylist goes out after createPlaylist has returned, to the
\* playlist it returned and with all the uris.
C22_CallsStrictlyOrdered ==
  /\ ppc = "idle" => pipeReq = NoRequest
  /\ ppc = "generating" =>
       /\ pipeReq = AiRequest
       /\ pipeSent = [NoSent EXCEPT !["ai"] = 1]
  /\ ppc = "searching" =>
       /\ pipeReq = [NoRequest EXCEPT !.kind = "search", !.query = plan.queries[qpos]]
       /\ pipeSent["search"] = qpos
       /\ pipeSent["create"] = 0 /\ pipeSent["add"] = 0
       /\ created = NoCreated
  /\ ppc = "creating" =>
       /\ pipeReq = [NoRequest EXCEPT !.kind = "create", !.name = plan.name]
       /\ pipeSent["search"] = qpos
       /\ qpos = Len(plan.queries) \/ Len(uris) >= 50
       /\ pipeSent["create"] = 1 /\ pipeSent["add"] = 0
       /\ created = NoCreated
  /\ ppc = "adding" =>
       /\ pipeReq.kind = "add"
       /\ created # NoCreated /\ pipeReq.playlist = created.id
       /\ pipeReq.uris = uris
       /\ pipeSent["create"] = 1 /\ pipeSent["add"] = 1
  /\ pipeSent["ai"] <= 1
  /\ planVia = "ai" => pipeSent["ai"] = 1

\* the add request of a run whose plan came from the generative API
C22_Witness ==
  /\ ppc = "adding" /\ planVia = "ai"
  /\ pipeSent = [ai |-> 1, search |-> QueryCap, create |-> 1, add |-> 1]
  /\ misses = 1 /\ Len(pipeReq.uris) = QueryCap - 1 /\ pipeReq.playlist = 2

\* the watched request leaves the phase in this step
Leaves(phase) == watched.phase = phase /\ watched'.phase # phase

\* the calls the watched request has made so far
CallsBounded ==
  /\ watched.resource <= 2 /\ watched.token <= 1
  /\ watched.phase \in {"refreshing", "retrying"} => watched.token = 1
  /\ watched.phase = "retrying" =>
       /\ watched.resource = 2
       /\ watched.retryBearer # watched.bearer

\* C23: a request answered 401 with a refresh token at hand sends one
\* refresh and, when that is accepted, one retry to the same endpoint with
\* the new token; a retry answered 401 or otherwise refused ends the request
\* as failed, without another refresh.  No request makes more than two
\* resource calls and one token call.
C23_SingleRetryAfterRefresh ==
  /\ []CallsBounded
  /\ [][/\ Leaves("first") /\ lastOp' = "fetchUnauthorized" =>
             /\ watched'.phase = "refreshing"
             /\ lastSent' = {RefreshRequest(loadRefresh)}
        /\ Leaves("refreshing") /\ lastOp' = "retryRefreshOk" =>
             /\ watched'.phase = "retrying"
             /\ lastSent' = {ApiRequest(storedAuth'.accessToken, "me")}
             /\ watched'.retryBearer = storedAuth'.accessToken
        /\ Leaves("retrying") =>
             /\ watched'.phase \in {"ok", "failed"}
             /\ refreshing' = refreshing
             /\ watched' = [watched EXCEPT !.phase = watched'.phase]]_vars

\* the retry of the watched request has been answered 401
C23_Witness ==
  /\ watched = [phase |-> "failed", resource |-> 2, token |-> 1, bearer |-> 1,
                retryBearer |-> 2]
  /\ lastOp = "retryFail" /\ error = "Error HTTP 401"

\* C24 (as claimed): an answer to a request of the load takes status out of
\* loading only when no request of the load is in flight any more.
C24_LoadWaitsForAllSettled ==
  [][(/\ status = "loading" /\ status' # "loading"
      /\ lastOp' \in {"fetchOk", "fetchFail", "retryOk", "retryFail", "retryRefreshFail"})
       => loadPending' + refreshing' + retrying' = 0]_vars

\* C25 (as claimed): at most one refresh request is in flight at any time.
C25_SingleRefreshInFlight == refreshing <= 1

\* bootstrapAuth has just run, in a configured app, with no code or no stored
\* verifier, and with nothing in storage or an expired StoredAuth that has
\* no refresh token
NothingToResume ==
  /\ lastOp \in {"load", "return"} /\ clientId
  /\ run.code = 0 \/ run.verifier = 0
  /\ \/ ~run.stored.present
     \/ run.stored.expiresAt <= now /\ run.stored.refreshToken = 0

\* C26: such a run sends no request, leaves both storage keys as they were,
\* sets no error, and the session is idle without an access token.
C26_InitializeNoOp ==
  NothingToResume =>
    /\ lastSent = {} /\ runNet = 0 /\ runReqs = <<>>
    /\ storedAuth = run.stored /\ storedVerifier = run.verifier
    /\ error = ""
    /\ status = "idle" /\ accessToken = 0 /\ profile = 0
    /\ pc = "done"

\* a page load that finds an expired StoredAuth without a refresh token
C26_Witness ==
  /\ NothingToResume /\ lastOp = "load"
  /\ run.stored.present /\ run.stored.refreshToken = 0 /\ run.stored.expiresAt <= now
  /\ storedAuth.present /\ status = "idle"

\* no operation of the session is in flight: bootstrapAuth has ended, no
\* handleAuthorize awaits its digest, no request of a load is unanswered
SessionQuiet ==
  /\ location = "app"
  /\ pc \in {"done", "rejected"}
  /\ aPending = {}
  /\ loadPending + refreshing + retrying = 0

\* C27 (as claimed): when the session is quiet, an access token in memory is
\* the access token of the StoredAuth in storage.
C27_MemoryMatchesStorage ==
  SessionQuiet /\ accessToken # 0 =>
    storedAuth.present /\ storedAuth.accessToken = accessToken

\* C28 (as claimed): what completes right after logout, short of a new
\* authorize or page load, leaves the session logged out: nothing in
\* storage, no access token, no profile, status idle.
C28_LogoutIsFinal ==
  [][(lastOp = "logout" /\ lastOp' \notin {"load", "return", "authorize", "redirect"})
       => /\ ~storedAuth'.present
          /\ accessToken' = 0 /\ profile' = 0
          /\ status' = "idle"]_vars

\* C29 (as claimed): a page load does not send an exchange request for the
\* code that the run before it has already sent one for.
C29_CodeExchangedOnce ==
  [][(/\ lastOp' \in {"load", "return"}
      /\ run.branch = "exchange" /\ run'.branch = "exchange")
       => run'.code # run.code]_vars

\* a run that got the canned plan of test mode has ended
CannedRunEnded == testMode /\ planVia = "canned" /\ RunEnded

\* C30 (as claimed): with test mode on every run ends in the minimum-match
\* error, and neither createPlaylist nor addTracksToPlaylist is called.
C30_TestModeAlwaysMinimumMatch ==
  /\ testMode => pipeSent["create"] = 0 /\ pipeSent["add"] = 0
  /\ CannedRunEnded =>
       createErr = "Se necesitan al menos 20 canciones; se encontraron "
                     \o ToString(Len(uris)) \o "."

\* C30 (amended): with test mode on no run calls the generative API,
\* createPlaylist or addTracksToPlaylist, and no playlist link is shown.  A
\* run whose five searches are all answered ends in the minimum-match
\* error, which names at most 5 tracks; a run in which a search is answered
\* with an error status ends with the error of that request.
C30_TestModeNeverCreates ==
  /\ testMode =>
       /\ pipeSent["ai"] = 0 /\ pipeSent["create"] = 0 /\ pipeSent["add"] = 0
       /\ ppc \in {"idle", "searching"}
       /\ createdPlaylistUrl = 0
  /\ CannedRunEnded =>
       /\ ~creating
       /\ \/ /\ lastOp = "searchOk"
             /\ pipeSent["search"] = 5 /\ Len(uris) <= 5
             /\ createErr = "Se necesitan al menos 20 canciones; se encontraron "
                              \o ToString(Len(uris)) \o "."
          \/ /\ lastOp = "searchFail"
             /\ pipeSent["search"] <= 5
             /\ lastHttp \in {401, 403}
             /\ createErr \notin {"", "Se necesitan al menos 20 canciones; se encontraron "
                                        \o ToString(Len(uris)) \o "."}

\* all five searches of a test-mode run found a track
C30_Witness ==
  /\ CannedRunEnded /\ lastOp = "searchOk"
  /\ Len(uris) = 5 /\ pipeSent["search"] = 5
  /\ createErr = "Se necesitan al menos 20 canciones; se encontraron 5."

====
